---- MODULE Spec2Model ----
(***************************************************************************)
(* Model of the jitsuclient buffering / dispatch / retry engine            *)
(* (src/client.go).  Threads: the dispatcher goroutine started by New      *)
(* ("run"), one API caller thread that invokes Flush() and Close()         *)
(* ("caller"), and the producers that invoke Queue.  A step holds at most  *)
(* one access to shared state (the Store, a channel); the HTTP request of  *)
(* a loop iteration is taken together with the Store call that follows it. *)
(***************************************************************************)
EXTENDS Naturals, Sequences, FiniteSets

VARIABLES
  Bulk,         \* options.Bulk
  Strict,       \* options.Strict
  MaxRetries,   \* options.MaxRetries
  QueueBuffer,  \* options.QueueBuffer, the capacity of t.q
  q,            \* t.q : the buffered channel of events
  closed,       \* t.cl has been closed
  tickPending,  \* tick.C holds a tick (the ticker's channel has capacity 1)
  store,        \* t.store : identity -> [attempts, attempted]
  pc,           \* position of "run" and of "caller"
  recv,         \* run: the event e received at line 137
  callerOp,     \* caller: which API call is executing ("none", "flush", "close")
  todo,         \* emit/emitBulk: entries of evts the range loop has yet to visit
  i,            \* emit/emitBulk: the success counter i
  failed,       \* emitBulk: the local failed
  ppc,          \* producers: "idle", or "send" while in t.q <- evt
  nextSeq,      \* producers: sequence number of the next event
  dequeued,     \* history: identities run has received
  dropInvalid,  \* history: identities received in strict mode that fail validation
  dropSet,      \* history: identities dropped because Store.Set failed
  delivered,    \* history: identities carried by a successful request
  rmDelivered,  \* history: identities removed from the Store after a successful send
  rmExhausted,  \* history: identities removed from the Store after retry exhaustion
  finalDone     \* history: the Flush() called by Close() has returned

vars == <<Bulk, Strict, MaxRetries, QueueBuffer, q, closed, tickPending, store, pc, recv,
          callerOp, todo, i, failed, ppc, nextSeq, dequeued, dropInvalid,
          dropSet, delivered, rmDelivered, rmExhausted, finalDone>>

(***************************************************************************)
(* Bounds of the model                                                     *)
(***************************************************************************)
NumProducers == 2
MaxEvents == 2
MaxQueueBuffer == 2
FlushCount == 2
MaxRetriesMax == 1
MaxAttempts == 2

Producers == 1..NumProducers
EventIds == Producers \X (1..MaxEvents)
Threads == {"run", "caller"}
NoEvent == [id |-> <<0, 0>>, valid |-> TRUE]

(***************************************************************************)
(* The Store contract: Set, Update, Remove, Count, GetAll                  *)
(***************************************************************************)
StoreCount(s) == Cardinality(DOMAIN s)

StoreSet(s, e) ==
  [k \in DOMAIN s \cup {e.id} |->
     IF k = e.id THEN [attempts |-> 0, attempted |-> FALSE] ELSE s[k]]

StoreHas(s, se) == se.id \in DOMAIN s

StoreUpdate(s, se) ==
  [s EXCEPT ![se.id] = [attempts |-> se.attempts, attempted |-> se.attempted]]

StoreRemove(s, se) == [k \in DOMAIN s \ {se.id} |-> s[k]]

StoreGetAll(s) ==
  {[id |-> k, attempts |-> s[k].attempts, attempted |-> s[k].attempted] :
     k \in DOMAIN s}

(***************************************************************************)
(* Pure parts of the code                                                  *)
(***************************************************************************)
\* event.Validate, line 139: validity is an attribute of the event
Validate(e) == e.valid

\* faulty variant: validation is never consulted
StrictDropOff(e) == FALSE

\* lines 138-139: the event is dropped
StrictDrop(e) == Strict /\ ~Validate(e)

\* faulty variant: the threshold must be passed, not reached
ThresholdPassed(s) == StoreCount(s) > FlushCount

\* faulty variant: an error of Store.Set ends the dispatcher
AfterSetAbort(ok) == IF ok THEN "chk" ELSE "done"

\* lines 145-150: where run goes after t.store.Set: on to the threshold check,
\* or (continue, line 147) back to the select
AfterSet(ok) == IF ok THEN "chk" ELSE "select"

\* line 150
ThresholdReached(s) == StoreCount(s) >= FlushCount

\* faulty variant: a flush below the threshold is taken for one with nothing
\* to emit
NothingBelowThreshold(s) == StoreCount(s) < FlushCount

\* line 162
NothingToEmit(s) == StoreCount(s) = 0

\* faulty variant: the attempt is not counted
MarkFailedNoCount(se) == [se EXCEPT !.attempted = TRUE]

\* sendFailed, lines 285-286
MarkFailed(se) ==
  [se EXCEPT !.attempted = TRUE, !.attempts = se.attempts + 1]

\* faulty variant: i++ for every entry visited
CountedAlways(n, sendOk) == n + 1

\* lines 180-182 and 243-250: i++ when the send has succeeded
Counted(n, sendOk) == IF sendOk THEN n + 1 ELSE n

\* faulty variant: one attempt too many before giving up
GiveUpLate(se) == MaxRetries > 0 /\ se.attempts > MaxRetries + 1

\* faulty variant: MaxRetries = 0 is not treated as "unlimited"
GiveUpAtZero(se) == se.attempts > MaxRetries

\* sendFailed, line 293
GiveUp(se) == MaxRetries > 0 /\ se.attempts > MaxRetries

\* faulty variant: the channel takes one event more than its capacity
CanSendLoose(ch) == Len(ch) <= QueueBuffer

\* line 66: the channel accepts a send without blocking
CanSend(ch) == Len(ch) < QueueBuffer

\* line 66: t.q <- evt puts the event behind those already buffered
ChanSend(ch, e) == Append(ch, e)

\* faulty variant: the newest buffered event is received first
ChanRecvNewest(ch) == <<ch[Len(ch)], SubSeq(ch, 1, Len(ch) - 1)>>

\* line 137: e := <-t.q takes the oldest buffered event; <<e, rest of t.q>>
ChanRecv(ch) == <<Head(ch), Tail(ch)>>

Ids(S) == {se.id : se \in S}
InEmit(t) == pc[t] \in {"emit", "getall", "loop"}

(***************************************************************************)
(* Initial state: after New has returned                                   *)
(***************************************************************************)
Init ==
  /\ Bulk \in BOOLEAN
  /\ Strict \in BOOLEAN
  /\ MaxRetries \in 0..MaxRetriesMax
  /\ QueueBuffer \in 1..MaxQueueBuffer
  /\ q = <<>>
  /\ closed = FALSE
  /\ tickPending = FALSE
  /\ store = <<>>
  /\ pc = [t \in Threads |-> IF t = "run" THEN "select" ELSE "idle"]
  /\ recv = NoEvent
  /\ callerOp = "none"
  /\ todo = [t \in Threads |-> {}]
  /\ i = [t \in Threads |-> 0]
  /\ failed = [t \in Threads |-> FALSE]
  /\ ppc = [p \in Producers |-> "idle"]
  /\ nextSeq = [p \in Producers |-> 1]
  /\ dequeued = {}
  /\ dropInvalid = {}
  /\ dropSet = {}
  /\ delivered = {}
  /\ rmDelivered = {}
  /\ rmExhausted = {}
  /\ finalDone = FALSE

cfgVars == <<Bulk, Strict, MaxRetries, QueueBuffer>>
prodVars == <<ppc, nextSeq>>
emitVars == <<todo, i, failed>>
sendHist == <<delivered>>
rmHist == <<rmDelivered, rmExhausted>>
runHist == <<dequeued, dropInvalid, dropSet>>

(***************************************************************************)
(* Producers: Client.Queue, lines 63-67                                    *)
(***************************************************************************)
\* events created so far, by all producers
Created ==
  Cardinality({k \in EventIds : k[2] < nextSeq[k[1]]})
    + Cardinality({p \in Producers : ppc[p] = "send"})

\* lines 63-64: Queue is called with a new event; evt.Apply touches only the event
QueueCall(p) ==
  /\ ppc[p] = "idle"
  /\ Created < MaxEvents
  /\ ppc' = [ppc EXCEPT ![p] = "send"]
  /\ UNCHANGED <<cfgVars, q, closed, tickPending, store, pc, recv, callerOp,
                 emitVars, nextSeq, runHist, sendHist, rmHist, finalDone>>

\* line 66: t.q <- evt, which blocks while the channel is full
QueueSend(p) ==
  /\ ppc[p] = "send"
  /\ CanSend(q)
  /\ \E v \in BOOLEAN : q' = ChanSend(q, [id |-> <<p, nextSeq[p]>>, valid |-> v])
  /\ ppc' = [ppc EXCEPT ![p] = "idle"]
  /\ nextSeq' = [nextSeq EXCEPT ![p] = nextSeq[p] + 1]
  /\ UNCHANGED <<cfgVars, closed, tickPending, store, pc, recv, callerOp,
                 emitVars, runHist, sendHist, rmHist, finalDone>>

(***************************************************************************)
(* The ticker of line 132: a tick is dropped when tick.C already holds one *)
(***************************************************************************)
Tick ==
  /\ pc["run"] # "done"
  /\ ~tickPending
  /\ tickPending' = TRUE
  /\ UNCHANGED <<cfgVars, q, closed, store, pc, recv, callerOp, emitVars,
                 prodVars, runHist, sendHist, rmHist, finalDone>>

(***************************************************************************)
(* Client.run, lines 131-159.  A select with several ready cases takes any *)
(* one of them.                                                            *)
(***************************************************************************)
\* lines 137-143: receive an event; in strict mode drop it when invalid
RunDequeue ==
  /\ pc["run"] = "select"
  /\ q # <<>>
  /\ q' = ChanRecv(q)[2]
  /\ dequeued' = dequeued \cup {ChanRecv(q)[1].id}
  /\ dropInvalid' = IF Strict /\ ~ChanRecv(q)[1].valid
                      THEN dropInvalid \cup {ChanRecv(q)[1].id} ELSE dropInvalid
  /\ IF StrictDrop(ChanRecv(q)[1])
       THEN UNCHANGED <<pc, recv>>
       ELSE /\ recv' = ChanRecv(q)[1]
            /\ pc' = [pc EXCEPT !["run"] = "set"]
  /\ UNCHANGED <<cfgVars, closed, tickPending, store, callerOp, emitVars,
                 prodVars, dropSet, sendHist, rmHist, finalDone>>

\* lines 145-148: t.store.Set(e), which may fail
RunSet ==
  /\ pc["run"] = "set"
  /\ \E ok \in BOOLEAN :
       /\ pc' = [pc EXCEPT !["run"] = AfterSet(ok)]
       /\ IF ok
            THEN /\ store' = StoreSet(store, recv)
                 /\ UNCHANGED dropSet
            ELSE /\ dropSet' = dropSet \cup {recv.id}
                 /\ UNCHANGED store
  /\ recv' = NoEvent
  /\ UNCHANGED <<cfgVars, q, closed, tickPending, callerOp, emitVars,
                 prodVars, dequeued, dropInvalid, sendHist, rmHist, finalDone>>

\* lines 150-152: flush when the count has reached the threshold
RunCheck ==
  /\ pc["run"] = "chk"
  /\ pc' = [pc EXCEPT !["run"] =
              IF ThresholdReached(store) THEN "emit" ELSE "select"]
  /\ UNCHANGED <<cfgVars, q, closed, tickPending, store, recv, callerOp,
                 emitVars, prodVars, runHist, sendHist, rmHist, finalDone>>

\* lines 153-154: a tick is received
RunTick ==
  /\ pc["run"] = "select"
  /\ tickPending
  /\ tickPending' = FALSE
  /\ pc' = [pc EXCEPT !["run"] = "emit"]
  /\ UNCHANGED <<cfgVars, q, closed, store, recv, callerOp, emitVars,
                 prodVars, runHist, sendHist, rmHist, finalDone>>

\* lines 155-156: the shutdown channel is closed; run returns
RunShutdown ==
  /\ pc["run"] = "select"
  /\ closed
  /\ pc' = [pc EXCEPT !["run"] = "done"]
  /\ UNCHANGED <<cfgVars, q, closed, tickPending, store, recv, callerOp,
                 emitVars, prodVars, runHist, sendHist, rmHist, finalDone>>

(***************************************************************************)
(* The API caller: Client.Flush (105-114) and Client.Close (116-120)       *)
(***************************************************************************)
\* lines 105-106: the application calls Flush
CallFlush ==
  /\ pc["caller"] = "idle"
  /\ ~closed
  /\ callerOp' = "flush"
  /\ pc' = [pc EXCEPT !["caller"] = "emit"]
  /\ UNCHANGED <<cfgVars, q, closed, tickPending, store, recv, emitVars,
                 prodVars, runHist, sendHist, rmHist, finalDone>>

\* line 117 close(t.cl); line 119 then calls Flush
CallClose ==
  /\ pc["caller"] = "idle"
  /\ ~closed
  /\ closed' = TRUE
  /\ callerOp' = "close"
  /\ pc' = [pc EXCEPT !["caller"] = "emit"]
  /\ UNCHANGED <<cfgVars, q, tickPending, store, recv, emitVars,
                 prodVars, runHist, sendHist, rmHist, finalDone>>

(***************************************************************************)
(* Client.emit (161-198) and Client.emitBulk (200-261), run by thread t    *)
(***************************************************************************)
\* emit / emitBulk return to Flush, and Flush to its caller
Return(t) ==
  /\ pc' = [pc EXCEPT ![t] = IF t = "run" THEN "select" ELSE "idle"]
  /\ todo' = [todo EXCEPT ![t] = {}]
  /\ i' = [i EXCEPT ![t] = 0]
  /\ failed' = [failed EXCEPT ![t] = FALSE]
  /\ callerOp' = IF t = "caller" THEN "none" ELSE callerOp
  /\ finalDone' = (finalDone \/ (t = "caller" /\ callerOp = "close"))

\* lines 162-164: nothing stored, return 0
EmitEmpty(t) ==
  /\ pc[t] = "emit"
  /\ NothingToEmit(store)
  /\ Return(t)
  /\ UNCHANGED <<cfgVars, q, closed, tickPending, store, recv, prodVars,
                 runHist, sendHist, rmHist>>

\* lines 162-168: something stored, go on to GetAll (in emit or in emitBulk)
EmitBegin(t) ==
  /\ pc[t] = "emit"
  /\ ~NothingToEmit(store)
  /\ pc' = [pc EXCEPT ![t] = "getall"]
  /\ UNCHANGED <<cfgVars, q, closed, tickPending, store, recv, callerOp,
                 emitVars, prodVars, runHist, sendHist, rmHist, finalDone>>

\* lines 170-173 and 203-206: GetAll fails, return 0 and the error
GetAllFail(t) ==
  /\ pc[t] = "getall"
  /\ Return(t)
  /\ UNCHANGED <<cfgVars, q, closed, tickPending, store, recv, prodVars,
                 runHist, sendHist, rmHist>>

\* the collector may reject a request; the attempt counter is capped in the model
CanFail(S) == MaxRetries > 0 \/ \A se \in S : se.attempts < MaxAttempts

\* sendFailed, lines 282-302: the value rm it returns
SendFailedRm(se) == GiveUp(MarkFailed(se))

\* faulty variant: every visited entry is removed, also one kept for a retry
IsRemoveAlways(se, sendOk) == TRUE

\* lines 190 and 253: the Store call of a loop iteration is Remove (else Update)
IsRemove(se, sendOk) == sendOk \/ SendFailedRm(se)

\* the Store after the Store call of a loop iteration, whose success is stOk;
\* Update fails when the entry is no longer there, Remove of such an entry
\* changes nothing
AfterIter(s, se, sendOk, stOk) ==
  IF ~stOk THEN s
  ELSE IF IsRemove(se, sendOk) THEN StoreRemove(s, se)
  ELSE IF StoreHas(s, se) THEN StoreUpdate(s, MarkFailed(se))
  ELSE s

\* history of one loop iteration
IterHist(se, sendOk, stOk) ==
  /\ rmDelivered' =
       IF stOk /\ sendOk /\ StoreHas(store, se)
         THEN rmDelivered \cup {se.id} ELSE rmDelivered
  /\ rmExhausted' =
       IF stOk /\ ~sendOk /\ SendFailedRm(se) /\ StoreHas(store, se)
         THEN rmExhausted \cup {se.id} ELSE rmExhausted

\* lines 170 and 176-195: GetAll returns the snapshot (emit)
GetAll(t) ==
  /\ pc[t] = "getall"
  /\ ~Bulk
  /\ todo' = [todo EXCEPT ![t] = StoreGetAll(store)]
  /\ pc' = [pc EXCEPT ![t] = "loop"]
  /\ UNCHANGED <<cfgVars, q, closed, tickPending, store, recv, callerOp,
                 i, failed, prodVars, runHist, sendHist, rmHist, finalDone>>

\* lines 176-195: one iteration of emit's loop: send(e.Event), then sendFailed
\* and its Update, or Remove
SendIter(t, se, sendOk, stOk) ==
  /\ pc[t] = "loop"
  /\ ~Bulk
  /\ se \in todo[t]
  /\ sendOk \/ CanFail({se})
  /\ todo' = [todo EXCEPT ![t] = todo[t] \ {se}]
  /\ i' = [i EXCEPT ![t] = Counted(i[t], sendOk)]
  /\ delivered' = IF sendOk THEN delivered \cup {se.id} ELSE delivered
  /\ store' = AfterIter(store, se, sendOk, stOk)
  /\ IterHist(se, sendOk, stOk)
  /\ UNCHANGED <<cfgVars, q, closed, tickPending, pc, recv, callerOp,
                 failed, prodVars, runHist, finalDone>>

SendOne(t) ==
  \E se \in todo[t], sendOk \in BOOLEAN, stOk \in BOOLEAN :
    SendIter(t, se, sendOk, stOk)

\* lines 203-224: emitBulk takes the snapshot and posts it in one request
BulkPost(t) ==
  /\ pc[t] = "getall"
  /\ Bulk
  /\ todo' = [todo EXCEPT ![t] = StoreGetAll(store)]
  /\ \E f \in BOOLEAN :
       /\ ~f \/ CanFail(StoreGetAll(store))
       /\ failed' = [failed EXCEPT ![t] = f]
       /\ delivered' = IF f THEN delivered ELSE delivered \cup DOMAIN store
  /\ pc' = [pc EXCEPT ![t] = "loop"]
  /\ UNCHANGED <<cfgVars, q, closed, tickPending, store, recv, callerOp,
                 i, prodVars, runHist, rmHist, finalDone>>

\* lines 239-258: one iteration of emitBulk's loop
BulkIter(t, se, stOk) ==
  /\ pc[t] = "loop"
  /\ Bulk
  /\ se \in todo[t]
  /\ todo' = [todo EXCEPT ![t] = todo[t] \ {se}]
  /\ i' = [i EXCEPT ![t] = Counted(i[t], ~failed[t])]
  /\ store' = AfterIter(store, se, ~failed[t], stOk)
  /\ IterHist(se, ~failed[t], stOk)
  /\ UNCHANGED <<cfgVars, q, closed, tickPending, pc, recv, callerOp,
                 failed, prodVars, runHist, sendHist, finalDone>>

BulkItem(t) ==
  \E se \in todo[t], stOk \in BOOLEAN : BulkIter(t, se, stOk)

\* lines 197 and 260: the loop is over, return i
EmitReturn(t) ==
  /\ pc[t] = "loop"
  /\ todo[t] = {}
  /\ Return(t)
  /\ UNCHANGED <<cfgVars, q, closed, tickPending, store, recv, prodVars,
                 runHist, sendHist, rmHist>>

Next ==
  \/ \E p \in Producers : QueueCall(p)
  \/ \E p \in Producers : QueueSend(p)
  \/ Tick
  \/ RunDequeue
  \/ RunSet
  \/ RunCheck
  \/ RunTick
  \/ RunShutdown
  \/ CallFlush
  \/ CallClose
  \/ \E t \in Threads : EmitEmpty(t)
  \/ \E t \in Threads : EmitBegin(t)
  \/ \E t \in Threads : GetAllFail(t)
  \/ \E t \in Threads : GetAll(t)
  \/ \E t \in Threads : SendOne(t)
  \/ \E t \in Threads : BulkPost(t)
  \/ \E t \in Threads : BulkItem(t)
  \/ \E t \in Threads : EmitReturn(t)

Spec == Init /\ [][Next]_vars

TypeOK ==
  /\ Len(q) <= QueueBuffer
  /\ pc["run"] \in {"select", "set", "chk", "done", "emit", "getall", "loop"}
  /\ pc["caller"] \in {"idle", "emit", "getall", "loop"}

(***************************************************************************)
(* Properties                                                              *)
(***************************************************************************)
Flushing == {t \in Threads : InEmit(t)}
FlushStarts(t) == ~InEmit(t) /\ InEmit(t)'
QIds == {q[k].id : k \in DOMAIN q}
Returned == {k \in EventIds : k[2] < nextSeq[k[1]]}
\* identities whose handling by run is over without an entry: dropped
Dropped == dropInvalid \cup dropSet
\* identities Store.Set has accepted so far
InsertedEver ==
  dequeued \ (Dropped \cup (IF pc["run"] = "set" THEN {recv.id} ELSE {}))
\* the failed send of this loop iteration takes the entry over the retry budget
Exceeds(se) == MaxRetries > 0 /\ se.attempts + 1 > MaxRetries
\* a loop iteration of thread t on entry se whose send failed
FailedIter(t, se, stOk) ==
  \/ SendIter(t, se, FALSE, stOk)
  \/ failed[t] /\ BulkIter(t, se, stOk)

\* C1: at most one execution of emit/emitBulk is in progress in any reachable
\* state (no two flushes overlap, the Store is used by one thread at a time).
C1_SingleFlushInFlight == Cardinality(Flushing) <= 1

\* C2: once the final flush made by Close() has completed, no flush is started
\* any more (shutdown is one-shot).
C2_NoFlushAfterFinal ==
  [][finalDone => \A t \in Threads : ~FlushStarts(t)]_vars

\* C3: once Close() has closed the shutdown channel, run receives no further
\* event from the queue and no new entry is inserted into the Store.
C3_NoIntakeAfterShutdown ==
  [][closed => (dequeued' = dequeued /\ DOMAIN store' \subseteq DOMAIN store)]_vars

\* C4, first half: with MaxRetries > 0 no entry held in the Store has
\* attempts above MaxRetries.
C4_StoredAttemptsBounded ==
  MaxRetries > 0 => \A k \in DOMAIN store : store[k].attempts <= MaxRetries

\* C4 as claimed: the bound, and the entry is absent from the Store right after
\* the failed attempt that takes attempts above MaxRetries, whatever Store.Remove
\* returns.
C4_AtMostNRetries_Claimed ==
  /\ []C4_StoredAttemptsBounded
  /\ [][\A t \in Threads : \A se \in todo[t] : \A stOk \in BOOLEAN :
          (FailedIter(t, se, stOk) /\ Exceeds(se)) => se.id \notin DOMAIN store']_vars

\* C4 as amended: the bound, and the entry is absent from the Store right after
\* the failed attempt that takes attempts above MaxRetries, when the Store.Remove
\* issued for it succeeds.
C4_AtMostNRetries ==
  /\ []C4_StoredAttemptsBounded
  /\ [][\A t \in Threads : \A se \in todo[t] :
          (FailedIter(t, se, TRUE) /\ Exceeds(se)) => se.id \notin DOMAIN store']_vars

C4_Witness == MaxRetries > 0 /\ rmExhausted # {} /\ StoreCount(store) > 0

\* C5 as claimed: with no operation in progress, Count() = received - delivered
\* - dropped by validation - dropped by retry exhaustion.
C5_Count_Claimed ==
  (pc["run"] \in {"select", "done"} /\ pc["caller"] = "idle") =>
    StoreCount(store) + Cardinality(delivered) + Cardinality(dropInvalid)
      + Cardinality(rmExhausted) = Cardinality(dequeued)

\* C5 as amended: whenever run is not between receiving an event and storing
\* it, Count() = received - dropped by validation - dropped by a failed
\* Store.Set - removed after a successful send - removed after retry exhaustion.
C5_Count ==
  pc["run"] # "set" =>
    StoreCount(store) + Cardinality(dropInvalid) + Cardinality(dropSet)
      + Cardinality(rmDelivered) + Cardinality(rmExhausted)
      = Cardinality(dequeued)

C5_Witness ==
  /\ pc["run"] = "select"
  /\ dropSet # {}
  /\ rmDelivered # {}

\* C6: when run finds Count() >= FlushCount after an insert (line 150) its next
\* step starts a flush, and from the insert until that flush has returned run
\* receives neither a queue item nor a tick.
C6_ThresholdFlush ==
  /\ [][(pc["run"] = "chk" /\ StoreCount(store) >= FlushCount
           /\ pc'["run"] # "chk") => pc'["run"] = "emit"]_vars
  /\ [][(pc["run"] = "chk" \/ InEmit("run")) =>
           (dequeued' = dequeued /\ (tickPending => tickPending'))]_vars

C6_Witness ==
  /\ pc["run"] = "chk"
  /\ StoreCount(store) >= FlushCount
  /\ ~tickPending

\* C7 as claimed: in bulk mode, after a failed request every snapshot entry is
\* in the Store with attempts one above the snapshot's unless its budget is
\* exceeded; after a successful request every snapshot entry is gone.
C7_BulkAllOrNothing_Claimed ==
  [][\A t \in Threads : \A se \in todo[t] : \A stOk \in BOOLEAN :
       BulkIter(t, se, stOk) =>
         IF failed[t]
           THEN Exceeds(se) \/ (se.id \in DOMAIN store'
                                 /\ store'[se.id].attempts = se.attempts + 1)
           ELSE se.id \notin DOMAIN store']_vars

\* C7 as amended: the snapshot is the whole Store, the loop visits every
\* snapshot entry before emitBulk returns, and every entry is treated by the
\* one request's outcome: after a failed request an entry whose budget is not
\* exceeded and whose Store.Update succeeds is in the Store with attempts one
\* above the snapshot's; after a successful request an entry whose Store.Remove
\* succeeds is gone.
C7_BulkAllOrNothing ==
  /\ [][\A t \in Threads : \A se \in todo[t] :
          BulkIter(t, se, TRUE) =>
            IF failed[t]
              THEN Exceeds(se) \/ ~StoreHas(store, se)
                     \/ (se.id \in DOMAIN store'
                          /\ store'[se.id].attempts = se.attempts + 1)
              ELSE se.id \notin DOMAIN store']_vars
  /\ [][\A t \in Threads :
          /\ (Bulk /\ pc[t] = "getall" /\ pc'[t] = "loop")
               => Ids(todo'[t]) = DOMAIN store
          /\ (Bulk /\ pc[t] = "loop" /\ pc'[t] # "loop") => todo[t] = {}]_vars

C7_Witness ==
  /\ Bulk
  /\ \E t \in Threads : pc[t] = "loop" /\ failed[t] /\ todo[t] = {}
  /\ StoreCount(store) >= 2
  /\ \A k \in DOMAIN store : store[k].attempts = 1

\* C8: the queue never holds more than QueueBuffer events, a producer in
\* t.q <- evt can proceed whenever the queue is not full, and every event whose
\* Queue call has returned is in the queue or has been received by run, once.
C8_Backpressure ==
  /\ Len(q) <= QueueBuffer
  /\ \A p \in Producers :
       (ppc[p] = "send" /\ Len(q) < QueueBuffer) => ENABLED QueueSend(p)
  /\ Returned = QIds \cup dequeued
  /\ QIds \cap dequeued = {}
  /\ Cardinality(QIds) = Len(q)

C8_Witness ==
  /\ Len(q) = QueueBuffer
  /\ \E p \in Producers : ppc[p] = "send"

\* C9: run receives the events of one producer in the order the producer
\* queued them, it handles one received event at a time, and an entry enters
\* the Store only for the event just received: so when an event is inserted,
\* every earlier event of its producer has already been inserted or dropped.
C9_ProducerOrder ==
  /\ [][\A k \in dequeued' \ dequeued :
          /\ \A n \in 1..(k[2] - 1) : <<k[1], n>> \in dequeued
          /\ pc["run"] = "select"
          /\ dequeued \subseteq (InsertedEver \cup Dropped)]_vars
  /\ [][\A k \in DOMAIN store' \ DOMAIN store :
          /\ k = recv.id
          /\ \A n \in 1..(k[2] - 1) : <<k[1], n>> \in InsertedEver \cup Dropped]_vars

C9_Witness ==
  /\ QueueBuffer >= 2
  /\ \E p \in Producers : {<<p, 1>>, <<p, 2>>} \subseteq DOMAIN store

\* identities that failed strict validation are nowhere past the queue
C10_StrictDropInv ==
  Strict =>
    \A k \in dropInvalid :
      /\ k \notin DOMAIN store
      /\ \A t \in Threads : k \notin Ids(todo[t])
      /\ k \notin delivered
      /\ k \notin rmDelivered \cup rmExhausted

\* C10: in strict mode an event that fails validation never has an entry in
\* the Store, is in no snapshot and in no request, and receiving it changes
\* neither the Store nor run's position (no flush is triggered).
C10_StrictDrop ==
  /\ []C10_StrictDropInv
  /\ [][(Strict /\ pc["run"] = "select" /\ q # <<>> /\ ~Head(q).valid
           /\ dequeued' # dequeued)
          => (store' = store /\ pc'["run"] = "select")]_vars

C10_Witness ==
  /\ Strict
  /\ dropInvalid # {}
  /\ StoreCount(store) > 0

\* thread t performs an iteration of its loop; the success counter i[t] moves
\* exactly when the send of the iteration succeeded (lines 181, 249)
LoopStep(t) == pc[t] = "loop" /\ todo'[t] # todo[t]

\* C11: with MaxRetries = 0 no entry leaves the Store because of a failed send,
\* however many attempts it has: a loop iteration whose send failed leaves the
\* set of stored identities as it is, no removal for retry exhaustion ever
\* happens, and an identity that leaves the Store has been delivered.
C11_UnlimitedRetries ==
  /\ [](MaxRetries = 0 => rmExhausted = {})
  /\ [][MaxRetries = 0 =>
          /\ \A t \in Threads :
               (LoopStep(t) /\ i'[t] = i[t]) => DOMAIN store' = DOMAIN store
          /\ \A k \in DOMAIN store \ DOMAIN store' : k \in delivered']_vars

C11_Witness ==
  /\ MaxRetries = 0
  /\ rmDelivered # {}
  /\ \E k \in DOMAIN store : store[k].attempts >= MaxAttempts

\* identities removed from the Store so far
Removed == rmDelivered \cup rmExhausted

\* C12: removal is terminal: once an entry has been removed from the Store, no
\* loop iteration of any flush handles it again (an iteration sends the event
\* or issues Store.Update / Store.Remove for it), and it is removed only once.
C12_RemovalTerminal ==
  [][\A t \in Threads :
       pc[t] = "loop" => \A se \in todo[t] \ todo'[t] : se.id \notin Removed]_vars

\* C13: the retry budget is exact.  With MaxRetries = N > 0 and Store calls
\* that succeed, every failed send of a stored event counts: while the entry
\* has fewer than N failed attempts behind it the failed send leaves it in the
\* Store with attempts one higher, and the failed send that finds N attempts
\* recorded (the (N+1)-th) removes it; so an event whose every send fails is
\* removed at its (N+1)-th attempt, not earlier and not later.
C13_ExactBudget ==
  [][MaxRetries > 0 =>
       \A t \in Threads : \A se \in todo[t] :
         (FailedIter(t, se, TRUE) /\ StoreHas(store, se)) =>
           IF store[se.id].attempts < MaxRetries
             THEN /\ se.id \in DOMAIN store'
                  /\ store'[se.id].attempts = store[se.id].attempts + 1
             ELSE se.id \notin DOMAIN store']_vars

\* a loop iteration of thread t on entry se whose send succeeded
OkIter(t, se, stOk) ==
  \/ SendIter(t, se, TRUE, stOk)
  \/ ~failed[t] /\ BulkIter(t, se, stOk)

\* C14: for every entry of the Store attempts = 0 exactly when attempted is
\* false; the attempts of an entry never decrease; a failed send whose Store
\* call succeeds and that keeps the entry raises its attempts by exactly 1 and
\* sets attempted; a successful send changes neither field of any entry.
C14_Bookkeeping ==
  /\ [](\A k \in DOMAIN store : store[k].attempts = 0 <=> ~store[k].attempted)
  /\ [][\A k \in DOMAIN store \cap DOMAIN store' :
          store'[k].attempts >= store[k].attempts]_vars
  /\ [][\A t \in Threads : \A se \in todo[t] :
          (FailedIter(t, se, TRUE) /\ StoreHas(store, se) /\ StoreHas(store', se))
            => store'[se.id] = [attempts |-> store[se.id].attempts + 1,
                                attempted |-> TRUE]]_vars
  /\ [][\A t \in Threads : \A se \in todo[t] : \A stOk \in BOOLEAN :
          OkIter(t, se, stOk) =>
            \A k \in DOMAIN store \cap DOMAIN store' : store'[k] = store[k]]_vars

\* C15: in a per-event flush the snapshot is the whole Store, every loop step
\* handles exactly one snapshot entry not handled before and leaves the flush
\* in its loop whatever the send and the Store call returned, the flush
\* returns only when no entry is left, and an iteration removes no entry but
\* its own, and that one only when its send succeeded or its budget is exceeded.
C15_PerEventIndependence ==
  [][\A t \in Threads :
       ~Bulk =>
         /\ (pc[t] = "getall" /\ pc'[t] = "loop") => Ids(todo'[t]) = DOMAIN store
         /\ (pc[t] = "loop" /\ pc'[t] # "loop") => todo[t] = {}
         /\ LoopStep(t) =>
              /\ pc'[t] = "loop"
              /\ \E se \in todo[t] :
                   /\ todo'[t] = todo[t] \ {se}
                   /\ \A k \in DOMAIN store \ DOMAIN store' :
                        k = se.id /\ (i'[t] = i[t] + 1 \/ Exceeds(se))]_vars

C15_Witness ==
  /\ ~Bulk
  /\ \E t \in Threads : pc[t] = "loop" /\ todo[t] = {} /\ i[t] = 1
  /\ rmDelivered # {}
  /\ \E k \in DOMAIN store : store[k].attempts = 1

\* C16: a failed Store.Set drops the received event, leaves the Store as it is
\* and takes run back to its select; a loop iteration whose Store.Update or
\* Store.Remove fails leaves the Store as it is (the entry stays) and the
\* flush in its loop with the other entries still to visit; run terminates
\* only when the shutdown channel is closed.
C16_StoreFailuresLocal ==
  [][/\ (pc["run"] = "set" /\ pc'["run"] # "set" /\ recv.id \notin DOMAIN store')
          => /\ pc'["run"] = "select"
             /\ store' = store
             /\ recv.id \in dropSet'
     /\ \A t \in Threads : pc[t] = "loop" =>
          \A se \in todo[t] :
            (\/ \E sendOk \in BOOLEAN : SendIter(t, se, sendOk, FALSE)
             \/ BulkIter(t, se, FALSE))
              => /\ store' = store
                 /\ pc'[t] = "loop"
                 /\ todo'[t] = todo[t] \ {se}
     /\ (pc["run"] # "done" /\ pc'["run"] = "done") => closed]_vars

C16_Witness ==
  /\ ~Bulk
  /\ dropSet # {}
  /\ pc["run"] = "select"
  /\ DOMAIN store \cap delivered # {}

(***************************************************************************)
(* Progress of the dispatcher while it is not shut down: the steps of run  *)
(* and of the producers, without Flush() and Close() of the application.   *)
(* The dispatcher goroutine keeps running (weak fairness of its own        *)
(* steps), the ticker of line 132 keeps ticking, a select with a ready     *)
(* tick case takes it sooner or later (Go chooses among the ready cases at *)
(* random: strong fairness), and Store.GetAll does not fail for ever.  The *)
(* producers may stop anywhere.                                            *)
(***************************************************************************)
RunNext ==
  \/ \E p \in Producers : QueueCall(p)
  \/ \E p \in Producers : QueueSend(p)
  \/ Tick
  \/ RunDequeue
  \/ RunSet
  \/ RunCheck
  \/ RunTick
  \/ EmitEmpty("run")
  \/ EmitBegin("run")
  \/ GetAllFail("run")
  \/ GetAll("run")
  \/ SendOne("run")
  \/ BulkPost("run")
  \/ BulkItem("run")
  \/ EmitReturn("run")

RunFair ==
  /\ WF_vars(Tick)
  /\ SF_vars(RunTick)
  /\ WF_vars(RunSet)
  /\ WF_vars(RunCheck)
  /\ WF_vars(EmitEmpty("run"))
  /\ WF_vars(EmitBegin("run"))
  /\ SF_vars(GetAll("run"))
  /\ SF_vars(BulkPost("run"))
  /\ WF_vars(SendOne("run"))
  /\ WF_vars(BulkItem("run"))
  /\ WF_vars(EmitReturn("run"))

LiveSpec == Init /\ [][RunNext]_vars /\ RunFair

\* the event has had its send attempt, or is in the snapshot of a flush that
\* is in its loop (emitBulk has posted it; emit sends every snapshot entry
\* before it returns)
Attempted(k) ==
  \/ k \in delivered
  \/ k \in rmExhausted
  \/ k \in DOMAIN store /\ store[k].attempted
  \/ \E t \in Threads : pc[t] = "loop" /\ k \in Ids(todo[t])

\* C17: a tick received by run starts a flush whatever the count is; a flush
\* that finds the Store empty returns at once, issues no request and changes
\* nothing, and only such a flush returns without a snapshot; a pending tick
\* is received by run, and every event in the Store gets its send attempt
\* (the dispatcher is not shut down).
C17_TimerLiveness ==
  /\ [][(tickPending /\ ~tickPending')
          => (pc["run"] = "select" /\ pc'["run"] = "emit")]_vars
  /\ [][\A t \in Threads :
          (pc[t] = "emit" /\ pc'[t] # "emit") =>
            IF StoreCount(store) = 0
              THEN ~InEmit(t)' /\ store' = store /\ delivered' = delivered
              ELSE pc'[t] = "getall"]_vars
  /\ tickPending ~> ~tickPending
  /\ \A k \in EventIds : (k \in DOMAIN store) ~> Attempted(k)

C17_Witness ==
  /\ ~closed
  /\ pc["run"] = "loop"
  /\ StoreCount(store) = 1
  /\ StoreCount(store) < FlushCount
  /\ \A k \in DOMAIN store : Attempted(k) /\ k \notin delivered

\* C18 as claimed: the success counter of a flush moves by one exactly in the
\* iterations that remove an entry from the Store after a successful send, so
\* the count returned is the number of entries removed on confirmed delivery.
C18_Count_Claimed ==
  [][\A t \in Threads :
       LoopStep(t) =>
         i'[t] = i[t] + (IF rmDelivered' # rmDelivered THEN 1 ELSE 0)]_vars

\* the counter is 0 when a flush starts and until its loop starts
C18_CountStartsAtZero ==
  \A t \in Threads : pc[t] # "loop" => i[t] = 0

\* C18 as amended: the count returned by a flush is the number of snapshot
\* entries whose send succeeded.  The counter starts at 0; an iteration either
\* counts its entry, which a successful request has carried and which is gone
\* from the Store afterwards unless Store.Remove failed and left the Store as
\* it was, or does not count, and then removes nothing on delivery and removes
\* its entry only for retry exhaustion; every removal on delivery is made by
\* an iteration that counts.
C18_Count ==
  /\ []C18_CountStartsAtZero
  /\ [][/\ \A t \in Threads :
             LoopStep(t) =>
               \E se \in todo[t] :
                 /\ todo'[t] = todo[t] \ {se}
                 /\ \/ /\ i'[t] = i[t] + 1
                       /\ se.id \in delivered'
                       /\ se.id \notin DOMAIN store' \/ store' = store
                    \/ /\ i'[t] = i[t]
                       /\ rmDelivered' = rmDelivered
                       /\ (se.id \in DOMAIN store \ DOMAIN store') => Exceeds(se)
        /\ rmDelivered' # rmDelivered =>
             \E t \in Threads : LoopStep(t) /\ i'[t] = i[t] + 1]_vars

C18_Witness ==
  /\ \E t \in Threads : pc[t] = "loop" /\ todo[t] = {} /\ i[t] = 1
  /\ \A t \in Threads : pc[t] = "loop" \/ ~InEmit(t)
  /\ Cardinality(Flushing) = 1
  /\ rmDelivered = {}
  /\ DOMAIN store \cap delivered # {}

\* C19: an event that a successful request has carried is never sent again:
\* no iteration of emit's loop sends it, and no request of emitBulk carries it.
C19_NoDuplicateDelivery ==
  [][\A t \in Threads :
       /\ (~Bulk /\ LoopStep(t)) =>
            \A se \in todo[t] \ todo'[t] : se.id \notin delivered
       /\ (Bulk /\ pc[t] = "getall" /\ pc'[t] = "loop") =>
            DOMAIN store \cap delivered = {}]_vars

(***************************************************************************)
(* Progress of the producers, with shutdown: run, the producers and        *)
(* Close() of the application, for a queue of capacity 1 and a client      *)
(* that is not strict and retries without limit.  On top of the fairness   *)
(* of the dispatcher: a select with a ready queue case takes it sooner or  *)
(* later, and a send on a channel that has room again and again completes  *)
(* (blocked senders are served in order).  Close() may stop anywhere.      *)
(***************************************************************************)
QueueInit == Init /\ ~Strict /\ MaxRetries = 0 /\ QueueBuffer = 1

QueueNext ==
  \/ \E p \in Producers : QueueCall(p)
  \/ \E p \in Producers : QueueSend(p)
  \/ Tick
  \/ RunDequeue
  \/ RunSet
  \/ RunCheck
  \/ RunTick
  \/ RunShutdown
  \/ CallClose
  \/ \E t \in Threads : EmitEmpty(t)
  \/ \E t \in Threads : EmitBegin(t)
  \/ \E t \in Threads : GetAllFail(t)
  \/ \E t \in Threads : GetAll(t)
  \/ \E t \in Threads : SendOne(t)
  \/ \E t \in Threads : BulkPost(t)
  \/ \E t \in Threads : BulkItem(t)
  \/ \E t \in Threads : EmitReturn(t)

QueueFair ==
  /\ RunFair
  /\ SF_vars(RunDequeue)
  /\ \A p \in Producers : SF_vars(QueueSend(p))

QueueSpec == QueueInit /\ [][QueueNext]_vars /\ QueueFair

\* producer p waits in t.q <- evt on a full queue that nobody serves any more
Stuck(p) == ppc[p] = "send" /\ Len(q) >= QueueBuffer /\ pc["run"] = "done"

\* C20 as claimed: no Queue call is blocked for ever: a producer waiting in
\* t.q <- evt has room in the queue or a dispatcher that still serves it,
\* also after Close().
C20_QueueReturns_Claimed == \A p \in Producers : ~Stuck(p)

\* C20 as amended: every Queue call returns unless the dispatcher is shut
\* down; a Queue call that waits on a full queue when run has exited never
\* returns.
C20_QueueReturns ==
  /\ \A p \in Producers : (ppc[p] = "send") ~> (ppc[p] = "idle" \/ closed)
  /\ [][\A p \in Producers : Stuck(p) => Stuck(p)']_vars

C20_Witness ==
  /\ \E p \in Producers : Stuck(p)
  /\ \E p \in Producers : nextSeq[p] > 1
  /\ finalDone

====
